---- MODULE Spec2Model ----
(***************************************************************************)
(* A model of czsc/sensors/utils.py: the walk-forward harness              *)
(* (generate_signals, check_signals_acc) and max_draw_down.                *)
(*                                                                         *)
(* Timestamps are whole days (an integer), so timedelta(days=5) is 5.      *)
(* Returns are integer basis points.  float64 arithmetic is modelled bit   *)
(* by bit (53-bit significands, round half to even).                       *)
(***************************************************************************)
EXTENDS Integers, Sequences, FiniteSets

VARIABLES
    bars,       \* the argument bars: a sequence of RawBar
    sdt,        \* generate_signals: the cutoff, after pd.to_datetime
    pc,         \* where the running call of the harness stands
    raised,     \* the exception that ended the call, "" when none
    bars_left,  \* the warm-up bars
    bars_right, \* the evaluation bars
    pos,        \* how many bars of bars_right the for loop has taken
    bg,         \* the BarGenerator
    ct,         \* the CzscAdvancedTrader
    signals,    \* generate_signals: the list of snapshots being built
    ret,        \* generate_signals: the returned list
    warned,     \* generate_signals: whether warnings.warn was called
    acc_signals,\* check_signals_acc: the argument signals, the Signals watched
    last_dt,    \* check_signals_acc: signal key -> dt of its last snapshot
    sigpos,     \* check_signals_acc: how many signals the inner loop has taken
    dirs,       \* the directories os.makedirs has created, by signal key
    exports,    \* the snapshots ct.take_snapshot has written, in order
    prev,       \* the finished calls: their bars, cutoff and result
    n1b,        \* max_draw_down: the argument
    mdd_pc,     \* max_draw_down: "call" | "returned" | "raised"
    mdd_ret     \* max_draw_down: what the call produced

harnessVars == <<bars, pc, raised, bars_left, bars_right, pos, bg, ct>>
genVars == <<sdt, signals, ret, warned, prev>>
accVars == <<acc_signals, last_dt, sigpos, dirs, exports>>
mddVars == <<n1b, mdd_pc, mdd_ret>>
vars == <<harnessVars, genVars, accVars, mddVars>>

-----------------------------------------------------------------------------
(* Bounds of the model *)

\* longest return sequence handed to max_draw_down
MaxLen == 3

\* how many trailing bars of an input are drawn freely
TailLen == 1

-----------------------------------------------------------------------------
(* Sequence helpers *)

\* all sequences over S of length at most n
SeqsUpTo(S, n) == UNION {[1..k -> S] : k \in 0..n}

Max2(a, b) == IF a >= b THEN a ELSE b

-----------------------------------------------------------------------------
(* The bar sequences the model draws its inputs from.  A RawBar is held as *)
(* its dt (in days), its id and its close.  An input is a run of regular   *)
(* bars, one every gap days with ids counting up, followed by TailLen bars *)
(* of a free shape: a step in time (0 repeats the timestamp, a negative    *)
(* one goes back), a step in id, and a close.                              *)

Shapes ==
    { [step |-> 1,  idstep |-> 1, close |-> 0],
      [step |-> 1,  idstep |-> 1, close |-> 1],
      [step |-> 6,  idstep |-> 1, close |-> 1],
      [step |-> 0,  idstep |-> 1, close |-> 0],
      [step |-> -2, idstep |-> 1, close |-> 1],
      [step |-> 1,  idstep |-> 0, close |-> 1] }

Regular(i, gap) == [dt |-> i * gap, id |-> i, close |-> i % 2]

LastOr0(b) == IF b = <<>> THEN [dt |-> 0, id |-> 0, close |-> 0] ELSE b[Len(b)]

NextBar(last, shape) ==
    [dt |-> last.dt + shape.step, id |-> last.id + shape.idstep,
     close |-> shape.close]

RECURSIVE Extend(_, _)
Extend(b, shapes) ==
    IF shapes = <<>> THEN b
    ELSE Extend(Append(b, NextBar(LastOr0(b), Head(shapes))), Tail(shapes))

\* n bars: regular ones, then as many of the tail shapes as fit
MakeBars(n, gap, tail) ==
    LET k == IF n < Len(tail) THEN n ELSE Len(tail)
    IN  Extend([i \in 1..(n - k) |-> Regular(i, gap)], SubSeq(tail, 1, k))

Tails == [1..TailLen -> Shapes]

\* a timestamp-ordered input: timestamps never go back
Ordered(b) == \A i \in 1..(Len(b) - 1) : b[i].dt <= b[i + 1].dt

-----------------------------------------------------------------------------
(* The collaborators, czsc.traders.advanced, are not part of utils.py.     *)
(* BarGenerator keeps the bars it was fed.  CzscAdvancedTrader.update      *)
(* feeds the bar to its BarGenerator and recomputes the signal mapping s   *)
(* from the bars seen so far; end_dt is the dt of the last bar seen.       *)

\* the signal function: a deterministic mapping from the bars seen so far
get_signals(fed) ==
    LET n == Len(fed)
    IN  [k1   |-> IF n >= 1 THEN fed[n].close ELSE 0,
         k2   |-> IF n >= 2 THEN (fed[n].close + fed[n - 1].close) % 3 ELSE 0,
         bars |-> n]

BgNone == [made |-> FALSE, fed |-> <<>>]

\* BarGenerator(base_freq=..., freqs=..., max_count=5000)
BarGenerator == [made |-> TRUE, fed |-> <<>>]

\* bg.update(bar)
BgUpdate(g, bar) == [g EXCEPT !.fed = Append(@, bar)]

\* for bar in bars_left: bg.update(bar)
BgFeed(g, bs) == [g EXCEPT !.fed = @ \o bs]

CtNone == [made |-> FALSE, end_dt |-> 0, s |-> get_signals(<<>>), updates |-> 0]

\* CzscAdvancedTrader(bg, get_signals)
CzscAdvancedTrader(g) ==
    [made |-> TRUE, end_dt |-> LastOr0(g.fed).dt, s |-> get_signals(g.fed),
     updates |-> 0]

\* ct.update(bar), g being ct's BarGenerator after it took the bar
CtUpdate(c, g, bar) ==
    [c EXCEPT !.end_dt = bar.dt, !.s = get_signals(g.fed), !.updates = @ + 1]

\* an update may raise; utils.py has no try, so the exception leaves the
\* call.  Of the n warm-up bars, the one that raises is the first or the last.
FailAt(n) == {k \in {1, n} : k >= 1}

-----------------------------------------------------------------------------
(* generate_signals *)

WarmUp == 500

\* the lengths of the inputs drawn for generate_signals
GenLens == {0, WarmUp - 1, WarmUp, WarmUp + 1, WarmUp + 2, WarmUp + 3}

\* the cutoffs drawn for generate_signals, in days
Cutoffs ==
    {0, WarmUp - 100, WarmUp + 1, WarmUp + 2, WarmUp + 3, WarmUp + 100}

\* [x for x in bars if x.dt < sdt]
LeftByTime(b, t) == SelectSeq(b, LAMBDA x : x.dt < t)

\* (mutant) the bars at the cutoff are left out
RightByTime_after(b, t) == SelectSeq(b, LAMBDA x : x.dt > t)

\* [x for x in bars if x.dt >= sdt]
RightByTime(b, t) == SelectSeq(b, LAMBDA x : x.dt >= t)

\* (mutant) one bar short
FirstBars_short(b) ==
    SubSeq(b, 1, IF Len(b) < WarmUp - 1 THEN Len(b) ELSE WarmUp - 1)

\* bars[:500]
FirstBars(b) == SubSeq(b, 1, IF Len(b) < WarmUp THEN Len(b) ELSE WarmUp)

\* bars[500:]
RestBars(b) == SubSeq(b, WarmUp + 1, Len(b))

\* (mutant) the mapping itself is stored, not a copy of it
Snapshot_alias(s) == [alias |-> TRUE, val |-> s]

\* dict(ct.s): a copy, which later updates of ct.s do not reach
Snapshot(s) == [alias |-> FALSE, val |-> s]

\* a list of snapshots once ct.s has become s: ct.update changes the mapping
\* in place, so an entry that is the mapping itself shows the new content
Refresh(list, s) ==
    [i \in 1..Len(list) |->
        IF list[i].alias THEN [alias |-> TRUE, val |-> s] ELSE list[i]]

\* the mappings a list of snapshots holds
Values(list) == [i \in 1..Len(list) |-> list[i].val]

HarnessIdle ==
    /\ bars = <<>>
    /\ pc = "idle"
    /\ raised = ""
    /\ bars_left = <<>>
    /\ bars_right = <<>>
    /\ pos = 0
    /\ bg = BgNone
    /\ ct = CtNone

GenIdle ==
    /\ sdt = 0
    /\ signals = <<>>
    /\ ret = <<>>
    /\ warned = FALSE
    /\ prev = <<>>

AccIdle ==
    /\ acc_signals = <<>>
    /\ last_dt = <<>>
    /\ sigpos = 0
    /\ dirs = {}
    /\ exports = <<>>

MddIdle ==
    /\ n1b = <<>>
    /\ mdd_pc = "idle"
    /\ mdd_ret = [raised |-> "", j |-> 0, i |-> 0, mdd |-> 0]

GenInit ==
    /\ \E n \in GenLens, tail \in Tails : bars = MakeBars(n, 1, tail)
    /\ sdt \in Cutoffs
    /\ pc = "split"
    /\ raised = ""
    /\ bars_left = <<>>
    /\ bars_right = <<>>
    /\ pos = 0
    /\ bg = BgNone
    /\ ct = CtNone
    /\ signals = <<>>
    /\ ret = <<>>
    /\ warned = FALSE
    /\ prev = <<>>
    /\ AccIdle
    /\ MddIdle

\* lines 51-57: the split into warm-up and evaluation bars
GenSplit ==
    /\ pc = "split"
    /\ IF Len(LeftByTime(bars, sdt)) <= WarmUp
       THEN /\ bars_left' = FirstBars(bars)
            /\ bars_right' = RestBars(bars)
       ELSE /\ bars_left' = LeftByTime(bars, sdt)
            /\ bars_right' = RightByTime(bars, sdt)
    /\ pc' = "check"
    /\ UNCHANGED <<bars, raised, pos, bg, ct, genVars, accVars, mddVars>>

\* (mutant) the aggregator is made and primed before the window is looked at
GenEmpty_primed ==
    /\ pc = "check"
    /\ Len(bars_right) = 0
    /\ bg' = BgFeed(BarGenerator, bars_left)
    /\ warned' = TRUE
    /\ ret' = <<>>
    /\ pc' = "returned"
    /\ UNCHANGED <<bars, raised, bars_left, bars_right, pos, ct,
                   sdt, signals, prev, accVars, mddVars>>

\* lines 59-61: no evaluation bar, warn and return []
GenEmpty ==
    /\ pc = "check"
    /\ Len(bars_right) = 0
    /\ warned' = TRUE
    /\ ret' = <<>>
    /\ pc' = "returned"
    /\ UNCHANGED <<bars, raised, bars_left, bars_right, pos, bg, ct,
                   sdt, signals, prev, accVars, mddVars>>

\* lines 63-65: the BarGenerator is made and takes every warm-up bar
GenPrime ==
    /\ pc = "check"
    /\ Len(bars_right) # 0
    /\ bg' = BgFeed(BarGenerator, bars_left)
    /\ pc' = "primed"
    /\ UNCHANGED <<bars, raised, bars_left, bars_right, pos, ct,
                   genVars, accVars, mddVars>>

\* lines 64-65: bg.update raises at a warm-up bar; the bars before it are fed
GenPrimeRaise ==
    /\ pc = "check"
    /\ Len(bars_right) # 0
    /\ \E k \in FailAt(Len(bars_left)) :
          bg' = BgFeed(BarGenerator, SubSeq(bars_left, 1, k - 1))
    /\ raised' = "UpdateError"
    /\ pc' = "raised"
    /\ UNCHANGED <<bars, bars_left, bars_right, pos, ct,
                   genVars, accVars, mddVars>>

\* lines 67-68: the list is started and the trader is made
GenConstruct ==
    /\ pc = "primed"
    /\ signals' = <<>>
    /\ ct' = CzscAdvancedTrader(bg)
    /\ pos' = 0
    /\ pc' = "loop"
    /\ UNCHANGED <<bars, raised, bars_left, bars_right, bg,
                   sdt, ret, warned, prev, accVars, mddVars>>

\* lines 69-71: one turn of the loop
GenEval ==
    /\ pc = "loop"
    /\ pos < Len(bars_right)
    /\ LET bar == bars_right[pos + 1]
           g   == BgUpdate(bg, bar)
           c   == CtUpdate(ct, g, bar)
       IN  /\ bg' = g
           /\ ct' = c
           /\ signals' = Append(Refresh(signals, c.s), Snapshot(c.s))
    /\ pos' = pos + 1
    /\ UNCHANGED <<bars, pc, raised, bars_left, bars_right,
                   sdt, ret, warned, prev, accVars, mddVars>>

\* (mutant) the exception is swallowed and the loop goes on with the next bar
GenEvalRaise_caught ==
    /\ pc = "loop"
    /\ pos < Len(bars_right)
    /\ pos' = pos + 1
    /\ UNCHANGED <<bars, pc, raised, bars_left, bars_right, bg, ct,
                   genVars, accVars, mddVars>>

\* line 70: ct.update raises, before or after its BarGenerator took the bar;
\* nothing is appended and line 72 is not reached
GenEvalRaise ==
    /\ pc = "loop"
    /\ pos < Len(bars_right)
    /\ \E took \in BOOLEAN :
          bg' = IF took THEN BgUpdate(bg, bars_right[pos + 1]) ELSE bg
    /\ raised' = "UpdateError"
    /\ pc' = "raised"
    /\ UNCHANGED <<bars, bars_left, bars_right, pos, ct,
                   genVars, accVars, mddVars>>

\* line 72
GenReturn ==
    /\ pc = "loop"
    /\ pos = Len(bars_right)
    /\ ret' = signals
    /\ pc' = "returned"
    /\ UNCHANGED <<bars, raised, bars_left, bars_right, pos, bg, ct,
                   sdt, signals, warned, prev, accVars, mddVars>>

\* the bars of a second run: those of the first with the last bar replaced,
\* dropped, or followed by one more
Variations(b) ==
    LET init == SubSeq(b, 1, Len(b) - 1)
    IN  {init}
        \cup {Append(init, NextBar(LastOr0(init), sh)) : sh \in Shapes}
        \cup {Append(b, NextBar(LastOr0(b), sh)) : sh \in Shapes}

\* generate_signals is called once more, with the same cutoff
GenCallAgain ==
    /\ pc = "returned"
    /\ prev = <<>>
    /\ prev' = <<[bars |-> bars, ret |-> ret]>>
    /\ bars' \in Variations(bars)
    /\ pc' = "split"
    /\ bars_left' = <<>>
    /\ bars_right' = <<>>
    /\ pos' = 0
    /\ bg' = BgNone
    /\ ct' = CtNone
    /\ signals' = <<>>
    /\ ret' = <<>>
    /\ warned' = FALSE
    /\ UNCHANGED <<raised, sdt, accVars, mddVars>>

GenNext ==
    \/ GenSplit
    \/ GenEmpty
    \/ GenPrime
    \/ GenPrimeRaise
    \/ GenConstruct
    \/ GenEval
    \/ GenEvalRaise
    \/ GenReturn
    \/ GenCallAgain

SpecGen == GenInit /\ [][GenNext]_vars

-----------------------------------------------------------------------------
(* Claims about generate_signals, checked under SpecGen *)

\* how many bars lie strictly before, and at or after, the cutoff
NBefore == Cardinality({i \in 1..Len(bars) : bars[i].dt < sdt})
NAtOrAfter == Cardinality({i \in 1..Len(bars) : bars[i].dt >= sdt})

\* the length of the longest common prefix of two sequences
CommonPrefix(a, b) ==
    LET m == IF Len(a) < Len(b) THEN Len(a) ELSE Len(b)
        d == {i \in 1..m : a[i] # b[i]}
    IN  IF d = {} THEN m ELSE (CHOOSE i \in d : \A l \in d : i <= l) - 1

\* run (a, ra) and run (b, rb): whenever evaluation bar k of the first lies
\* in the common prefix of the two inputs, the first k snapshots agree.  In a
\* timestamp-ordered input the evaluation bars are the last Len(ra) bars.
Causal(a, ra, b, rb) ==
    \A k \in 1..Len(ra) :
        (Len(a) - Len(ra) + k <= CommonPrefix(a, b)) =>
            /\ Len(rb) >= k
            /\ SubSeq(Values(ra), 1, k) = SubSeq(Values(rb), 1, k)

TwoRuns == pc = "returned" /\ prev # <<>>

\* C2: two runs with the same cutoff over timestamp-ordered inputs that agree
\* up to and including evaluation bar k return the same first k snapshots.
C2_Causal ==
    (TwoRuns /\ Ordered(bars) /\ Ordered(prev[1].bars)) =>
        /\ Causal(prev[1].bars, prev[1].ret, bars, ret)
        /\ Causal(bars, ret, prev[1].bars, prev[1].ret)

C2_Witness ==
    /\ TwoRuns
    /\ Ordered(bars) /\ Ordered(prev[1].bars)
    /\ Len(ret) >= 2 /\ Len(prev[1].ret) = Len(ret)
    /\ Len(bars) - 1 = CommonPrefix(bars, prev[1].bars)
    /\ Values(ret)[Len(ret)] # Values(prev[1].ret)[Len(ret)]
    /\ Values(ret)[1] = Values(prev[1].ret)[1]

\* C3: with 500 or more bars before the cutoff in a timestamp-ordered input,
\* the returned list has one snapshot per bar at or after the cutoff, in bar
\* order: snapshot i is the signal state after the first NBefore + i bars.
C3_LengthMatchesWindow ==
    (pc = "returned" /\ Ordered(bars) /\ NBefore >= WarmUp) =>
        /\ Len(ret) = NAtOrAfter
        /\ \A i \in 1..Len(ret) :
              Values(ret)[i] = get_signals(SubSeq(bars, 1, NBefore + i))

C3_Witness ==
    /\ pc = "returned"
    /\ Ordered(bars)
    /\ NBefore > WarmUp
    /\ Len(ret) >= 2
    /\ \E i \in 1..Len(bars) : bars[i].dt = sdt

\* C4, as stated: with fewer than 500 bars before the cutoff the warm-up fed
\* to the aggregator is the first 500 bars, so it always has 500 bars.
C4_WarmUpAlways500 ==
    (pc = "returned" /\ NBefore < WarmUp) =>
        /\ Len(bars_left) = WarmUp
        /\ bg.made
        /\ SubSeq(bg.fed, 1, WarmUp) = SubSeq(bars, 1, WarmUp)

\* C4, amended: with fewer than 500 bars before the cutoff, an input of more
\* than 500 bars is split by position, and the warm-up fed to the aggregator
\* is its first 500 bars and the rest is evaluated; an input of at most 500
\* bars gives [] with a warning, and no aggregator is made or fed.
C4_WarmUpFirst500IfLonger ==
    (pc = "returned" /\ NBefore < WarmUp) =>
        IF Len(bars) > WarmUp
        THEN /\ Len(bars_left) = WarmUp
             /\ bars_left = SubSeq(bars, 1, WarmUp)
             /\ bg.made
             /\ bg.fed = bars
             /\ Len(ret) = Len(bars) - WarmUp
        ELSE /\ ret = <<>>
             /\ warned
             /\ ~bg.made /\ bg.fed = <<>>
             /\ ~ct.made

C4_Witness ==
    /\ pc = "returned"
    /\ NBefore < WarmUp /\ NBefore > 0
    /\ Len(bars) > WarmUp + 1
    /\ Len(bg.fed) = Len(bars)
    /\ Len(ret) = Len(bars) - WarmUp

\* the evaluation window of the input is empty: by position when at most 500
\* bars lie before the cutoff, by timestamp otherwise
EmptyWindow ==
    IF NBefore <= WarmUp THEN Len(bars) <= WarmUp ELSE NAtOrAfter = 0

\* C11: when the evaluation window is empty the call returns [] with a
\* warning and without raising, and neither the aggregator nor the trader
\* is made, fed or updated.
C11_EmptyWindowWarns ==
    (pc # "split" /\ EmptyWindow) =>
        /\ pc \in {"check", "returned"}
        /\ raised = ""
        /\ ~bg.made /\ bg.fed = <<>>
        /\ ~ct.made /\ ct.updates = 0
        /\ signals = <<>>
        /\ pc = "returned" => ret = <<>> /\ warned

\* more than 500 bars, all of them before the cutoff
C11_Witness ==
    /\ pc = "returned"
    /\ NBefore > WarmUp /\ NAtOrAfter = 0
    /\ bars_left = bars /\ bars_right = <<>>
    /\ ret = <<>> /\ warned

\* the ordering a bar sequence has to keep: a later bar has a later or equal
\* timestamp and a higher id
OrderingHolds(b) ==
    \A i \in 1..(Len(b) - 1) : b[i].dt <= b[i + 1].dt /\ b[i].id < b[i + 1].id

\* C12: on an input that breaks the ordering the call fails at once, before
\* any bar is fed; it neither processes the bars nor returns.
C12_UnorderedFailsBeforeFeeding ==
    (pc # "split" /\ ~OrderingHolds(bars)) =>
        /\ pc = "raised" /\ raised # ""
        /\ bg.fed = <<>>
        /\ ct.updates = 0

\* C13: every snapshot in the list is the signal mapping as it was right
\* after the update of its own evaluation bar, whatever updates came later:
\* snapshot i is the mapping of the warm-up bars and the first i evaluation
\* bars, in the list being built and in the list returned.
C13_SnapshotsKeepTheirState ==
    /\ pc \in {"loop", "returned"} =>
          \A i \in 1..Len(signals) :
              Values(signals)[i] =
                  get_signals(bars_left \o SubSeq(bars_right, 1, i))
    /\ pc = "returned" =>
          \A i \in 1..Len(ret) :
              Values(ret)[i] =
                  get_signals(bars_left \o SubSeq(bars_right, 1, i))

\* the trader's mapping has changed since the first snapshot was taken
C13_Witness ==
    /\ pc = "loop"
    /\ Len(signals) >= 2
    /\ ct.updates = Len(signals)
    /\ ct.s # Values(signals)[1]
    /\ ct.s = Values(signals)[Len(signals)]


\* the warm-up bars and the evaluation bars of the input, each in input
\* order: by position when at most 500 bars lie before the cutoff, by
\* timestamp otherwise
WarmUpBars ==
    IF NBefore <= WarmUp
    THEN [i \in 1..(IF Len(bars) < WarmUp THEN Len(bars) ELSE WarmUp) |-> bars[i]]
    ELSE SelectSeq(bars, LAMBDA x : x.dt < sdt)

EvaluationBars ==
    IF NBefore <= WarmUp
    THEN [i \in 1..(Len(bars) - WarmUp) |-> bars[WarmUp + i]]
    ELSE SelectSeq(bars, LAMBDA x : ~(x.dt < sdt))

\* C18: in a call that does not abort every bar of the input is consumed
\* once and in input order: the bars fed so far are the first bars of the
\* input, the warm-up bars go to the aggregator before the trader is made
\* and the evaluation bars to the trader's update after it is made, one per
\* update, and none is left out when the call returns.
C18_EachBarOnceInInputOrder ==
    /\ Len(WarmUpBars) + Len(EvaluationBars) = Len(bars)
    /\ ~ct.made => ct.updates = 0
    /\ pc = "primed" =>
          /\ ~ct.made
          /\ bg.fed = SubSeq(bars, 1, Len(WarmUpBars))
    /\ (pc \in {"loop", "returned"} /\ ct.made) =>
          /\ ct.updates = pos
          /\ Len(signals) = pos
          /\ bg.fed = SubSeq(bars, 1, Len(WarmUpBars) + pos)
    /\ (pc = "returned" /\ ct.made) =>
          /\ ct.updates = Len(EvaluationBars)
          /\ Len(ret) = Len(EvaluationBars)
          /\ bg.fed = bars

-----------------------------------------------------------------------------
(* check_signals_acc *)

Gate == 600

Debounce == 5

\* the lengths of the inputs drawn for check_signals_acc
AccLens == {0, 1, 2, 3, 4, Gate - 1, Gate, Gate + 1}

\* the days between two regular bars
Gaps == {1, 3, 6}

\* what is done to the first three bars of an input
Heads == {"asis", "id0", "id2", "dt0", "dt2"}

WithHead(b, h) ==
    IF Len(b) < 3 \/ h = "asis" THEN b
    ELSE [i \in 1..Len(b) |->
            IF h = "id0" /\ i = 1 THEN [b[1] EXCEPT !.id = b[2].id]
            ELSE IF h = "id2" /\ i = 3 THEN [b[3] EXCEPT !.id = b[2].id]
            ELSE IF h = "dt0" /\ i = 1 THEN [b[1] EXCEPT !.dt = b[2].dt]
            ELSE IF h = "dt2" /\ i = 3 THEN [b[3] EXCEPT !.dt = b[2].dt - 1]
            ELSE b[i]]

\* the Signals watched: two on the same key with different values, and one
\* on another key
Watched ==
    << [key |-> "k1", value |-> 1],
       [key |-> "k1", value |-> 0],
       [key |-> "k2", value |-> 1] >>

\* Signal.is_match(s): the mapping holds the signal's value under its key
is_match(signal, s) == s[signal.key] = signal.value

\* (mutant) the last three bars are checked, and all three ids
AssertOk_last(b) ==
    LET n == Len(b)
    IN  /\ b[n].dt > b[n - 1].dt /\ b[n - 1].dt > b[n - 2].dt
        /\ b[n].id > b[n - 1].id /\ b[n - 1].id > b[n - 2].id

\* line 90: bars[2].dt > bars[1].dt > bars[0].dt and bars[2].id > bars[1].id
AssertOk(b) == b[3].dt > b[2].dt /\ b[2].dt > b[1].dt /\ b[3].id > b[2].id

\* (mutant) the gate is one bar lower
TooShort_low(b) == Len(b) < Gate - 1

\* line 91: len(bars) < 600
TooShort(b) == Len(b) < Gate

\* bars[:500], line 94
AccLeft(b) == SubSeq(b, 1, IF Len(b) < WarmUp THEN Len(b) ELSE WarmUp)

\* (mutant) only the bars from the 600th on are evaluated
AccRight_gate(b) == SubSeq(b, Gate, Len(b))

\* bars[500:], line 95
AccRight(b) == SubSeq(b, WarmUp + 1, Len(b))

\* (mutant) five days since the last snapshot are enough
Due_atleast(dt, last) == dt - last >= Debounce

\* line 109: bar.dt - last_dt[signal.key] > timedelta(days=5)
Due(dt, last) == dt - last > Debounce

AccInit ==
    /\ \E n \in AccLens, gap \in Gaps, tail \in Tails, h \in Heads :
          bars = WithHead(MakeBars(n, gap, tail), h)
    /\ acc_signals = Watched
    /\ pc = "enter"
    /\ raised = ""
    /\ bars_left = <<>>
    /\ bars_right = <<>>
    /\ pos = 0
    /\ bg = BgNone
    /\ ct = CtNone
    /\ last_dt = <<>>
    /\ sigpos = 0
    /\ dirs = {}
    /\ exports = <<>>
    /\ GenIdle
    /\ MddIdle

\* lines 89-92: bars[-1], the assertion on bars[0..2], the length gate
AccEnter ==
    /\ pc = "enter"
    /\ IF Len(bars) < 3
       THEN pc' = "raised" /\ raised' = "IndexError"
       ELSE IF ~AssertOk(bars)
       THEN pc' = "raised" /\ raised' = "AssertionError"
       ELSE IF TooShort(bars)
       THEN pc' = "returned" /\ raised' = ""
       ELSE pc' = "prime" /\ raised' = ""
    /\ UNCHANGED <<bars, bars_left, bars_right, pos, bg, ct,
                   genVars, accVars, mddVars>>

\* lines 94-98: the split by position, and the warm-up
AccPrime ==
    /\ pc = "prime"
    /\ bars_left' = AccLeft(bars)
    /\ bars_right' = AccRight(bars)
    /\ bg' = BgFeed(BarGenerator, AccLeft(bars))
    /\ pc' = "primed"
    /\ UNCHANGED <<bars, raised, pos, ct, genVars, accVars, mddVars>>

\* lines 97-98: bg.update raises at a warm-up bar; the bars before it are fed
AccPrimeRaise ==
    /\ pc = "prime"
    /\ bars_left' = AccLeft(bars)
    /\ bars_right' = AccRight(bars)
    /\ \E k \in FailAt(Len(AccLeft(bars))) :
          bg' = BgFeed(BarGenerator, SubSeq(AccLeft(bars), 1, k - 1))
    /\ raised' = "UpdateError"
    /\ pc' = "raised"
    /\ UNCHANGED <<bars, pos, ct, genVars, accVars, mddVars>>

\* (mutant) every directory is made up front, before the loop
AccConstruct_mkdirs ==
    /\ pc = "primed"
    /\ ct' = CzscAdvancedTrader(bg)
    /\ last_dt' = [k \in {acc_signals[i].key : i \in 1..Len(acc_signals)} |->
                      CzscAdvancedTrader(bg).end_dt]
    /\ dirs' = {acc_signals[i].key : i \in 1..Len(acc_signals)}
    /\ pos' = 0
    /\ pc' = "loop"
    /\ UNCHANGED <<bars, raised, bars_left, bars_right, bg,
                   genVars, acc_signals, sigpos, exports, mddVars>>

\* (mutant) last_dt starts at the epoch, as if nothing had been seen yet
AccConstruct_epoch ==
    /\ pc = "primed"
    /\ ct' = CzscAdvancedTrader(bg)
    /\ last_dt' = [k \in {acc_signals[i].key : i \in 1..Len(acc_signals)} |-> 0]
    /\ pos' = 0
    /\ pc' = "loop"
    /\ UNCHANGED <<bars, raised, bars_left, bars_right, bg,
                   genVars, acc_signals, sigpos, dirs, exports, mddVars>>

\* lines 100-101: the trader, and last_dt for every watched key
AccConstruct ==
    /\ pc = "primed"
    /\ ct' = CzscAdvancedTrader(bg)
    /\ last_dt' = [k \in {acc_signals[i].key : i \in 1..Len(acc_signals)} |->
                      CzscAdvancedTrader(bg).end_dt]
    /\ pos' = 0
    /\ pc' = "loop"
    /\ UNCHANGED <<bars, raised, bars_left, bars_right, bg,
                   genVars, acc_signals, sigpos, dirs, exports, mddVars>>

\* lines 103-104: the next evaluation bar goes to the trader
AccUpdate ==
    /\ pc = "loop"
    /\ pos < Len(bars_right)
    /\ LET bar == bars_right[pos + 1]
       IN  /\ bg' = BgUpdate(bg, bar)
           /\ ct' = CtUpdate(ct, BgUpdate(bg, bar), bar)
    /\ pos' = pos + 1
    /\ sigpos' = 0
    /\ pc' = IF Len(acc_signals) = 0 THEN "loop" ELSE "signals"
    /\ UNCHANGED <<bars, raised, bars_left, bars_right,
                   genVars, acc_signals, last_dt, dirs, exports, mddVars>>

\* line 104: ct.update raises, before or after its BarGenerator took the bar;
\* the inner loop is not entered for this bar
AccUpdateRaise ==
    /\ pc = "loop"
    /\ pos < Len(bars_right)
    /\ \E took \in BOOLEAN :
          bg' = IF took THEN BgUpdate(bg, bars_right[pos + 1]) ELSE bg
    /\ raised' = "UpdateError"
    /\ pc' = "raised"
    /\ UNCHANGED <<bars, bars_left, bars_right, pos, ct,
                   genVars, accVars, mddVars>>

\* lines 106-114: one turn of the inner loop, for the bar just taken
AccSignal ==
    /\ pc = "signals"
    /\ LET signal == acc_signals[sigpos + 1]
           bar    == bars_right[pos]
       IN  /\ dirs' = dirs \cup {signal.key}
           /\ IF Due(bar.dt, last_dt[signal.key]) /\ is_match(signal, ct.s)
              THEN /\ exports' = Append(exports,
                                   [sig |-> sigpos + 1, key |-> signal.key,
                                    value |-> ct.s[signal.key],
                                    dt |-> bar.dt, bar |-> pos])
                   /\ last_dt' = [last_dt EXCEPT ![signal.key] = bar.dt]
              ELSE UNCHANGED <<exports, last_dt>>
    /\ sigpos' = sigpos + 1
    /\ pc' = IF sigpos + 1 = Len(acc_signals) THEN "loop" ELSE "signals"
    /\ UNCHANGED <<bars, raised, bars_left, bars_right, pos, bg, ct,
                   genVars, acc_signals, mddVars>>

\* the loop of line 103 is over
AccReturn ==
    /\ pc = "loop"
    /\ pos = Len(bars_right)
    /\ pc' = "returned"
    /\ UNCHANGED <<bars, raised, bars_left, bars_right, pos, bg, ct,
                   genVars, accVars, mddVars>>

AccNext ==
    \/ AccEnter
    \/ AccPrime
    \/ AccPrimeRaise
    \/ AccConstruct
    \/ AccUpdate
    \/ AccUpdateRaise
    \/ AccSignal
    \/ AccReturn

SpecAcc == AccInit /\ [][AccNext]_vars

-----------------------------------------------------------------------------
(* Claims about check_signals_acc, checked under SpecAcc *)

AccEnded == pc \in {"returned", "raised"}

NoSideEffect ==
    /\ ~bg.made /\ bg.fed = <<>>
    /\ ~ct.made /\ ct.updates = 0
    /\ dirs = {}
    /\ exports = <<>>

FarApart(e, f) == e.dt - f.dt > Debounce \/ f.dt - e.dt > Debounce

\* C1: any two snapshots exported for the same Signal are more than 5 days
\* apart.  Every snapshot is compared with the latest one as the list grows,
\* and all pairs are compared once the run has returned.
C1_OneExportPerFiveDays ==
    /\ \A i \in 1..(Len(exports) - 1) :
          exports[i].sig = exports[Len(exports)].sig
              => FarApart(exports[i], exports[Len(exports)])
    /\ pc = "returned" =>
          \A i, j \in 1..Len(exports) :
              (i < j /\ exports[i].sig = exports[j].sig)
                  => FarApart(exports[i], exports[j])

\* several bars within 5 days of an exported one matched the same Signal
C1_Witness ==
    /\ pc = "returned"
    /\ \E i, j \in 1..Len(exports) :
          /\ exports[i].sig = 3 /\ exports[j].sig = 3
          /\ exports[j].dt - exports[i].dt = Debounce + 1
          /\ exports[j].bar - exports[i].bar > 1
          /\ \A p \in exports[i].bar..exports[j].bar :
                is_match(Watched[3], get_signals(SubSeq(bars, 1, WarmUp + p)))

\* C5, as stated: 600 bars give exactly one evaluation bar.
C5_OneEvaluationBarAt600 ==
    (pc = "returned" /\ Len(bars) = Gate) => ct.updates = 1

\* C5, amended: 600 bars give 100 evaluation bars, bars[500:], each passed to
\* the trader's update once.
C5_HundredEvaluationBarsAt600 ==
    (pc = "returned" /\ Len(bars) = Gate) =>
        /\ ct.updates = Gate - WarmUp
        /\ SubSeq(bg.fed, WarmUp + 1, Len(bg.fed)) = SubSeq(bars, WarmUp + 1, Gate)

C5_Witness ==
    pc = "returned" /\ Len(bars) = Gate /\ ct.made /\ exports # <<>>

FirstThreeOk ==
    /\ bars[1].dt < bars[2].dt /\ bars[2].dt < bars[3].dt
    /\ bars[2].id < bars[3].id

LastThreeOk ==
    LET n == Len(bars)
    IN  /\ bars[n - 2].dt < bars[n - 1].dt /\ bars[n - 1].dt < bars[n].dt
        /\ bars[n - 2].id < bars[n - 1].id /\ bars[n - 1].id < bars[n].id

\* C6, as stated: every input of fewer than 600 bars returns normally, with
\* no side effect.
C6_ShortIsAlwaysNoOp ==
    (AccEnded /\ Len(bars) < Gate) =>
        pc = "returned" /\ raised = "" /\ NoSideEffect

\* C6, amended: an input of 3 to 599 bars whose first three bars pass the
\* assertion returns normally with no side effect; a shorter one raises
\* IndexError and one whose first three bars fail raises AssertionError,
\* both with no side effect.
C6_ShortIsNoOpOrRaises ==
    (AccEnded /\ Len(bars) < Gate) =>
        /\ NoSideEffect
        /\ IF Len(bars) < 3 THEN pc = "raised" /\ raised = "IndexError"
           ELSE IF ~FirstThreeOk THEN pc = "raised" /\ raised = "AssertionError"
           ELSE pc = "returned" /\ raised = ""

C6_Witness ==
    /\ pc = "returned" /\ raised = ""
    /\ Len(bars) = Gate - 1
    /\ ~LastThreeOk

\* C7, as stated: the call fails, before any update, exactly when the last
\* three bars are not strictly ascending in timestamp and id.
C7_LastThreeDecide ==
    (pc # "enter" /\ Len(bars) >= 3) =>
        /\ raised = "AssertionError" <=> ~LastThreeOk
        /\ raised = "AssertionError" => ~bg.made /\ ct.updates = 0

\* C7, amended: the call fails with AssertionError, before any update,
\* exactly when the first three bars are not strictly ascending in timestamp
\* or bars[2].id is not above bars[1].id; bars[0].id and the last three bars
\* play no part.
C7_FirstThreeDecide ==
    (pc # "enter" /\ Len(bars) >= 3) =>
        /\ raised = "AssertionError" <=> ~FirstThreeOk
        /\ raised \in {"", "AssertionError", "UpdateError"}
        /\ raised = "AssertionError" =>
              pc = "raised" /\ ~bg.made /\ ct.updates = 0

\* accepted, with bars[0].id not below bars[1].id and the last three bars
\* out of order
C7_Witness ==
    /\ pc = "returned" /\ raised = ""
    /\ Len(bars) >= Gate
    /\ ct.updates > 0
    /\ bars[1].id >= bars[2].id
    /\ ~LastThreeOk

\* the keys of the watched Signals
WatchedKeys == {acc_signals[i].key : i \in 1..Len(acc_signals)}

\* C15, as stated: the directory of every watched key exists before the
\* first evaluation bar is passed to the trader's update, so it exists
\* whenever an update has been made.
C15_DirsBeforeFirstUpdate ==
    (ct.made /\ ct.updates >= 1) => dirs = WatchedKeys

\* C15, amended: no directory is made before the first evaluation bar has
\* been passed to update; the directories are made inside the loop, after
\* the update of a bar, one per turn of the inner loop and before that
\* Signal is tested, so all of them exist once the first evaluation bar is
\* done, and the directory of a key exists before any snapshot for it.
C15_DirsMadeInsideLoop ==
    /\ ct.updates = 0 => dirs = {}
    /\ pc = "signals" =>
          /\ {acc_signals[i].key : i \in 1..sigpos} \subseteq dirs
          /\ pos = 1 => dirs = {acc_signals[i].key : i \in 1..sigpos}
    /\ (pc \in {"loop", "returned", "raised"} /\ ct.updates >= 1) =>
          dirs = WatchedKeys
    /\ \A i \in 1..Len(exports) : exports[i].key \in dirs

\* the first evaluation bar has been passed to update, the first Signal is
\* done and the directory of the last Signal's key is not made yet
C15_Witness ==
    /\ pc = "signals"
    /\ ct.updates = 1
    /\ sigpos = 1
    /\ dirs = {"k1"}
    /\ "k2" \in WatchedKeys

\* the dt of the last snapshot exported for Signal i before evaluation bar p,
\* the dt of the last warm-up bar if there is none
OwnLast(i, p) ==
    LET past == {k \in 1..Len(exports) :
                    exports[k].sig = i /\ exports[k].bar < p}
    IN  IF past = {} THEN bars_left[Len(bars_left)].dt
        ELSE exports[CHOOSE k \in past : \A l \in past : l <= k].dt

Exported(i, p) ==
    \E k \in 1..Len(exports) : exports[k].sig = i /\ exports[k].bar = p

\* C16: every watched Signal has a last-export timestamp of its own, so what
\* it exports depends on its own snapshots only: it exports at an evaluation
\* bar exactly when it matches there and the bar is more than 5 days after
\* its own last snapshot, whatever the other Signals exported.
C16_IndependentDebounce ==
    (pc = "returned" /\ ct.made) =>
        \A i \in 1..Len(acc_signals), p \in 1..Len(bars_right) :
            Exported(i, p) <=>
                /\ is_match(acc_signals[i],
                            get_signals(SubSeq(bars, 1, WarmUp + p)))
                /\ bars_right[p].dt - OwnLast(i, p) > Debounce

\* C17: in a turn of the inner loop, for the bar just passed to update and
\* the Signal at hand, a snapshot is exported if and only if the bar is more
\* than 5 days after the timestamp recorded under the Signal's key and the
\* Signal matches the mapping as it is after the update of this very bar;
\* the recorded timestamp becomes the bar's dt exactly when the snapshot is
\* exported, and no other step exports or records anything.
C17_ExportIffDueAndMatch ==
    [][ IF pc = "signals"
        THEN LET signal == acc_signals[sigpos + 1]
                 bar    == bars_right[pos]
                 fire   == /\ bar.dt - last_dt[signal.key] > Debounce
                           /\ ct.s[signal.key] = signal.value
             IN  /\ ct.updates = pos
                 /\ ct.end_dt = bar.dt
                 /\ ct.s = get_signals(SubSeq(bars, 1, WarmUp + pos))
                 /\ fire =>
                       /\ Len(exports') = Len(exports) + 1
                       /\ SubSeq(exports', 1, Len(exports)) = exports
                       /\ exports'[Len(exports')].sig = sigpos + 1
                       /\ exports'[Len(exports')].bar = pos
                       /\ exports'[Len(exports')].dt = bar.dt
                       /\ last_dt' = [last_dt EXCEPT ![signal.key] = bar.dt]
                 /\ ~fire => exports' = exports /\ last_dt' = last_dt
        ELSE /\ exports' = exports
             /\ pc # "primed" => last_dt' = last_dt
      ]_vars

\* the Signal at hand matches, within 5 days of the last snapshot for its
\* key, and is not exported; and one was exported the very day it was due
C17_Witness ==
    /\ pc = "signals"
    /\ sigpos = 1
    /\ is_match(acc_signals[1], ct.s)
    /\ exports = SelectSeq(exports, LAMBDA e : e.bar < pos)
    /\ bars_right[pos].dt - last_dt["k1"] \in 1..Debounce
    /\ \E k \in 1..Len(exports) :
          /\ exports[k].dt = last_dt["k1"]
          /\ exports[k].dt - bars_left[Len(bars_left)].dt = Debounce + 1

\* C19: last_dt of every watched key starts at the dt of the last warm-up
\* bar, which is the trader's end_dt when it is made, so nothing is exported
\* at an evaluation bar that is 5 days or less after the last warm-up bar,
\* whether a Signal matches there or not.
C19_NoExportNearWarmUp ==
    /\ (pc = "loop" /\ pos = 0) =>
          /\ DOMAIN last_dt = WatchedKeys
          /\ \A k \in WatchedKeys : last_dt[k] = bars[WarmUp].dt
    /\ \A i \in 1..Len(exports) :
          exports[i].dt - bars[WarmUp].dt > Debounce

\* the first Signal matched at an evaluation bar within 5 days of the last
\* warm-up bar, nothing was exported there, and it was exported later
C19_Witness ==
    /\ pc = "returned"
    /\ \E p \in 1..Len(bars_right) :
          /\ bars_right[p].dt - bars[WarmUp].dt \in 1..Debounce
          /\ is_match(acc_signals[1], get_signals(SubSeq(bars, 1, WarmUp + p)))
          /\ ~Exported(1, p)
    /\ \E k \in 1..Len(exports) : exports[k].sig = 1

-----------------------------------------------------------------------------
(* Both harness functions: a call of generate_signals or a call of         *)
(* check_signals_acc.  A call of check_signals_acc is one that watches     *)
(* signals.                                                                *)

GenRunning == acc_signals = <<>>

HarnessInit == GenInit \/ AccInit

HarnessNext ==
    \/ GenRunning /\ GenSplit
    \/ GenRunning /\ GenEmpty
    \/ GenRunning /\ GenPrime
    \/ GenRunning /\ GenPrimeRaise
    \/ GenRunning /\ GenConstruct
    \/ GenRunning /\ GenEval
    \/ GenRunning /\ GenEvalRaise
    \/ GenRunning /\ GenReturn
    \/ GenRunning /\ GenCallAgain
    \/ ~GenRunning /\ AccEnter
    \/ ~GenRunning /\ AccPrime
    \/ ~GenRunning /\ AccPrimeRaise
    \/ ~GenRunning /\ AccConstruct
    \/ ~GenRunning /\ AccUpdate
    \/ ~GenRunning /\ AccUpdateRaise
    \/ ~GenRunning /\ AccSignal
    \/ ~GenRunning /\ AccReturn

SpecHarness == HarnessInit /\ [][HarnessNext]_vars

\* the bars a call means to feed, in the order it feeds them
Feed == bars_left \o bars_right

IsPrefix(a, b) == Len(a) <= Len(b) /\ a = SubSeq(b, 1, Len(a))

\* the call ended in the failure of an update, at the bar it failed on: the
\* bars fed are those before that bar, and that bar if the failing update
\* had taken it; nothing is returned and no later bar has any effect
FailedAtStep ==
    /\ pc = "raised"
    /\ ret = <<>>
    /\ IsPrefix(bg.fed, Feed)
    /\ IF ct.made
       THEN /\ pos = ct.updates
            /\ Len(bg.fed) \in {Len(bars_left) + ct.updates,
                                Len(bars_left) + ct.updates + 1}
            /\ Len(bg.fed) <= Len(Feed)
            /\ ct.s = get_signals(SubSeq(Feed, 1, Len(bars_left) + ct.updates))
            /\ \A i \in 1..Len(exports) : exports[i].bar <= ct.updates
       ELSE /\ ct.updates = 0
            /\ Len(bg.fed) < Len(bars_left)
            /\ exports = <<>> /\ dirs = {}

\* a call that returned has fed its whole evaluation window, or is one of
\* the early returns that feed nothing
ReturnedWhole ==
    /\ raised = ""
    /\ IF ct.made
       THEN /\ bg.fed = Feed
            /\ ct.updates = Len(bars_right)
            /\ GenRunning => Len(ret) = Len(bars_right)
       ELSE /\ ~bg.made /\ bg.fed = <<>> /\ ct.updates = 0
            /\ ret = <<>>
            /\ IF GenRunning THEN warned ELSE TooShort(bars)

\* C14: a failing update is not caught, in generate_signals and in
\* check_signals_acc alike: the call is over at the step that failed, no
\* later bar is fed and nothing is returned, and from then on nothing
\* changes; a call that returns has processed its whole evaluation window or
\* returned early, so no partial list is ever returned.
C14_UpdateFailurePropagates ==
    /\ [](/\ raised = "UpdateError" => FailedAtStep
          /\ pc = "returned" => ReturnedWhole)
    /\ [][raised = "UpdateError" => UNCHANGED vars]_vars

\* generate_signals failed at its second evaluation bar, one snapshot taken
C14_Witness ==
    /\ GenRunning
    /\ raised = "UpdateError"
    /\ ct.updates = 1 /\ Len(signals) = 1
    /\ Len(bars_right) = 3
    /\ Len(bg.fed) = Len(bars_left) + 1

-----------------------------------------------------------------------------
(* IEEE-754 binary64, for the quotient and the product of line 129/135.    *)
(* A float is 0.0 or sig * 2^exp with sig a 53-bit integer whose leading   *)
(* bit is 1; sig is held as a sequence of 53 bits, most significant first. *)

Precision == 53

\* the width, in bits, of the limbs a significand is multiplied in: a limb
\* times a factor below 2^14, plus a carry, stays below 2^31
LimbBits == Precision \div 4

FZero == [zero |-> TRUE, exp |-> 0, sig |-> <<>>]

\* scale a/b by powers of two until b <= a < 2b; e counts the scaling
RECURSIVE Normalise(_, _, _)
Normalise(a, b, e) ==
    IF a < b THEN Normalise(2 * a, b, e - 1)
    ELSE IF a >= 2 * b THEN Normalise(a, 2 * b, e + 1)
    ELSE [a |-> a, b |-> b, e |-> e]

\* 2^k mod b, by repeated squaring (b < 2^15, so no product overflows)
RECURSIVE Pow2Mod(_, _)
Pow2Mod(k, b) ==
    IF k = 0 THEN 1 % b
    ELSE LET h == Pow2Mod(k \div 2, b)
         IN  (h * h * (IF k % 2 = 1 THEN 2 ELSE 1)) % b

\* the remainder of long division of a by b after k quotient bits, b <= a < 2b
DivRem(a, b, k) == ((a - b) * Pow2Mod(k - 1, b)) % b

\* the first Precision bits of a/b, b <= a < 2b: bit 1 is the integer part
QuotBits(a, b) ==
    [k \in 1..Precision |->
        IF k = 1 THEN 1 ELSE IF 2 * DivRem(a, b, k - 1) >= b THEN 1 ELSE 0]

\* the value of bits lo..hi of a bit string, most significant first
RECURSIVE BitsVal(_, _, _)
BitsVal(bits, lo, hi) ==
    IF hi < lo THEN 0 ELSE 2 * BitsVal(bits, lo, hi - 1) + bits[hi]

\* v >= 0 written in exactly w bits, most significant first
ToBits(v, w) == [k \in 1..w |-> (v \div (2 ^ (w - k))) % 2]

\* a bit string without its leading zeros
Strip(bits) ==
    IF \A k \in 1..Len(bits) : bits[k] = 0 THEN <<>>
    ELSE LET f == CHOOSE k \in 1..Len(bits) :
                      bits[k] = 1 /\ \A l \in 1..(k - 1) : bits[l] = 0
         IN  SubSeq(bits, f, Len(bits))

\* a significand rounded up by one unit in the last place
RoundUp(sig, exp) ==
    IF \A k \in 1..Len(sig) : sig[k] = 1
    THEN [zero |-> FALSE, exp |-> exp + 1,
          sig |-> [k \in 1..Len(sig) |-> IF k = 1 THEN 1 ELSE 0]]
    ELSE LET z == CHOOSE k \in 1..Len(sig) :
                      sig[k] = 0 /\ \A l \in (k + 1)..Len(sig) : sig[l] = 1
         IN  [zero |-> FALSE, exp |-> exp,
              sig |-> [k \in 1..Len(sig) |->
                          IF k < z THEN sig[k] ELSE IF k = z THEN 1 ELSE 0]]

\* a / b in float64 (true division of two int64, a >= 0, b > 0)
FDiv(a, b) ==
    IF a = 0 THEN FZero
    ELSE LET nm  == Normalise(a, b, 0)
             sig == QuotBits(nm.a, nm.b)
             rem == DivRem(nm.a, nm.b, Precision)
             e   == nm.e - (Precision - 1)
             up  == \/ 2 * rem > nm.b
                    \/ 2 * rem = nm.b /\ sig[Precision] = 1
         IN  IF up THEN RoundUp(sig, e)
             ELSE [zero |-> FALSE, exp |-> e, sig |-> sig]

\* limb n (0 is the least significant) of a bit string, as an integer
Limb(sig, n) ==
    BitsVal(sig, Max2(1, Len(sig) - (n + 1) * LimbBits + 1),
                 Len(sig) - n * LimbBits)

\* the carry into limb n of sig * c
RECURSIVE MulCarry(_, _, _)
MulCarry(sig, c, n) ==
    IF n = 0 THEN 0
    ELSE (Limb(sig, n - 1) * c + MulCarry(sig, c, n - 1)) \div (2 ^ LimbBits)

\* sig * c for an integer 0 < c < 2^14, exactly: bits, most significant first
MulBits(sig, c) ==
    LET nl   == (Len(sig) + LimbBits - 1) \div LimbBits
        out  == [n \in 0..(nl - 1) |->
                    (Limb(sig, n) * c + MulCarry(sig, c, n)) % (2 ^ LimbBits)]
        top  == MulCarry(sig, c, nl)
        bits == [k \in 1..((nl + 2) * LimbBits) |->
                    LET n == nl + 1 - ((k - 1) \div LimbBits)
                        v == IF n > nl THEN top \div (2 ^ LimbBits)
                             ELSE IF n = nl THEN top % (2 ^ LimbBits)
                             ELSE out[n]
                    IN  ToBits(v, LimbBits)[((k - 1) % LimbBits) + 1]]
    IN  Strip(bits)

\* x * c in float64, c an integer, 0 < c < 2^14
FMulInt(x, c) ==
    IF x.zero THEN FZero
    ELSE LET p    == MulBits(x.sig, c)
             drop == Len(p) - Precision
             keep == SubSeq(p, 1, Precision)
             rest == SubSeq(p, Precision + 1, Len(p))
             e    == x.exp + drop
             up   == /\ drop > 0
                     /\ rest[1] = 1
                     /\ \/ \E i \in 2..Len(rest) : rest[i] = 1
                        \/ keep[Precision] = 1
         IN  IF up THEN RoundUp(keep, e)
             ELSE [zero |-> FALSE, exp |-> e, sig |-> keep]

\* int(x) for a float 0 <= x < 2^31 (so x.exp < 0): truncation
FTrunc(x) ==
    IF x.zero \/ -x.exp >= Len(x.sig) THEN 0
    ELSE BitsVal(x.sig, 1, Len(x.sig) + x.exp)

\* x < y for two floats >= 0
FLess(x, y) ==
    IF y.zero THEN FALSE
    ELSE IF x.zero THEN TRUE
    ELSE \/ x.exp < y.exp
         \/ /\ x.exp = y.exp
            /\ \E k \in 1..Precision :
                  /\ x.sig[k] < y.sig[k]
                  /\ \A l \in 1..(k - 1) : x.sig[l] = y.sig[l]

-----------------------------------------------------------------------------
(* max_draw_down *)

\* per-period returns, in basis points, the model draws n1b from
Returns == {-300, -3, 0, 50, 100}

Base == 10000

\* np.cumsum(n1b), then curve += 10000
RECURSIVE CumSum(_)
CumSum(s) ==
    IF s = <<>> THEN <<>>
    ELSE LET n == Len(s)
             c == CumSum(SubSeq(s, 1, n - 1))
         IN  Append(c, (IF n = 1 THEN 0 ELSE c[n - 1]) + s[n])

Curve(s) == LET c == CumSum(s) IN [k \in 1..Len(s) |-> c[k] + Base]

\* np.maximum.accumulate
RECURSIVE MaxAccumulate(_)
MaxAccumulate(c) ==
    IF c = <<>> THEN <<>>
    ELSE LET n == Len(c)
             m == MaxAccumulate(SubSeq(c, 1, n - 1))
         IN  Append(m, IF n = 1 THEN c[1] ELSE Max2(m[n - 1], c[n]))

\* (np.maximum.accumulate(curve) - curve) / np.maximum.accumulate(curve)
Decline(c) ==
    LET m == MaxAccumulate(c)
    IN  [k \in 1..Len(c) |-> FDiv(m[k] - c[k], m[k])]

\* (mutant) the last index of the maximum instead of the first
ArgMaxF_last(d) ==
    (CHOOSE k \in 1..Len(d) :
        /\ \A l \in 1..Len(d) : ~FLess(d[k], d[l])
        /\ \A l \in (k + 1)..Len(d) : FLess(d[l], d[k])) - 1

\* np.argmax of a non-empty float array: the first index of the maximum,
\* counted from 0 as numpy counts
ArgMaxF(d) ==
    (CHOOSE k \in 1..Len(d) :
        /\ \A l \in 1..Len(d) : ~FLess(d[k], d[l])
        /\ \A l \in 1..(k - 1) : FLess(d[l], d[k])) - 1

\* (mutant) the index of the smallest value instead of the largest
ArgMaxI_argmin(c) ==
    (CHOOSE k \in 1..Len(c) :
        /\ \A l \in 1..Len(c) : c[l] >= c[k]
        /\ \A l \in 1..(k - 1) : c[l] > c[k]) - 1

\* np.argmax of a non-empty integer array, counted from 0
ArgMaxI(c) ==
    (CHOOSE k \in 1..Len(c) :
        /\ \A l \in 1..Len(c) : c[l] <= c[k]
        /\ \A l \in 1..(k - 1) : c[l] < c[k]) - 1

\* int((curve[j] - curve[i]) / curve[j] * 10000); the returned mdd is this
\* integer / 10000, held here in units of 1/10000
\* (float64 rounding and int() are symmetric in the sign)
MddE4(cj, ci) ==
    IF cj >= ci THEN FTrunc(FMulInt(FDiv(cj - ci, cj), Base))
    ELSE -FTrunc(FMulInt(FDiv(ci - cj, cj), Base))

\* what max_draw_down(s) does: raise, or return (j, i, mdd)
max_draw_down(s) ==
    IF s = <<>> THEN [raised |-> "ValueError", j |-> 0, i |-> 0, mdd |-> 0]
    ELSE LET curve == Curve(s)
             i == ArgMaxF(Decline(curve))
         IN  IF i = 0 THEN [raised |-> "", j |-> 0, i |-> 0, mdd |-> 0]
             ELSE LET j == ArgMaxI(SubSeq(curve, 1, i))
                  IN  [raised |-> "", j |-> j, i |-> i,
                       mdd |-> MddE4(curve[j + 1], curve[i + 1])]

NoRet == [raised |-> "", j |-> 0, i |-> 0, mdd |-> 0]

MddInit ==
    /\ n1b \in SeqsUpTo(Returns, MaxLen)
    /\ mdd_pc = "call"
    /\ mdd_ret = NoRet
    /\ HarnessIdle
    /\ GenIdle
    /\ AccIdle

MaxDrawDown ==
    /\ mdd_pc = "call"
    /\ mdd_ret' = max_draw_down(n1b)
    /\ mdd_pc' = IF mdd_ret'.raised = "" THEN "returned" ELSE "raised"
    /\ UNCHANGED <<n1b, harnessVars, genVars, accVars>>

SpecMdd == MddInit /\ [][MaxDrawDown]_vars

-----------------------------------------------------------------------------
(* Claims about max_draw_down, checked under SpecMdd *)

MddDone == mdd_pc # "call"

ReturnedZero ==
    mdd_pc = "returned" /\ mdd_ret.j = 0 /\ mdd_ret.i = 0 /\ mdd_ret.mdd = 0

\* C8: for the empty sequence and for every one-element sequence the call
\* returns (0, 0, 0) and does not raise.
C8_EmptyOrSingleReturnsZero ==
    (MddDone /\ Len(n1b) <= 1) => ReturnedZero

\* C9: for every non-empty sequence of non-negative returns the call
\* returns (0, 0, 0).
C9_NonNegativeReturnsZero ==
    (MddDone /\ n1b # <<>> /\ \A k \in 1..Len(n1b) : n1b[k] >= 0)
        => ReturnedZero

C9_Witness ==
    /\ mdd_pc = "returned"
    /\ Len(n1b) >= 2
    /\ \A k \in 1..Len(n1b) : n1b[k] >= 0
    /\ \E k \in 1..Len(n1b) : n1b[k] > 0
    /\ n1b[Len(n1b)] = 0
    /\ ReturnedZero

\* the exact fractional decline at k is larger than at l (no rounding):
\* (m[k] - c[k]) / m[k] > (m[l] - c[l]) / m[l], cross-multiplied
DeclineGreater(c, k, l) ==
    LET m == MaxAccumulate(c)
    IN  (m[k] - c[k]) * m[l] > (m[l] - c[l]) * m[k]

\* C10: for a non-empty sequence whose curve stays positive, end_index is the
\* first index of the largest exact fractional decline; when end_index > 0,
\* start_index is the first index of the largest curve value before it and
\* mdd * 10000 is the integer part of 10000 * (c[start] - c[end]) / c[start].
C10_ExactTruncatedDrawdown ==
    (MddDone /\ n1b # <<>> /\ \A k \in 1..Len(n1b) : Curve(n1b)[k] > 0) =>
        LET c == Curve(n1b)
            e == mdd_ret.i + 1
            b == mdd_ret.j + 1
        IN  /\ mdd_pc = "returned"
            /\ e \in 1..Len(c)
            /\ \A l \in 1..Len(c) : ~DeclineGreater(c, l, e)
            /\ \A l \in 1..(e - 1) : DeclineGreater(c, e, l)
            /\ e > 1 =>
                  /\ b \in 1..(e - 1)
                  /\ \A l \in 1..(e - 1) : c[l] <= c[b]
                  /\ \A l \in 1..(b - 1) : c[l] < c[b]
                  /\ mdd_ret.mdd = (Base * (c[b] - c[e])) \div c[b]

\* C20: for a non-empty sequence whose curve stays positive, whenever the
\* call returns an end_index above 0: start_index is below end_index, the
\* curve at start_index is the largest value of the curve over [0, end_index],
\* the curve at end_index is below it, and the drawdown is in [0, 1), that
\* is at least 0 and below 10000 in units of 1/10000.
C20_PeakBeforeTrough ==
    (mdd_pc = "returned" /\ n1b # <<>> /\ mdd_ret.i > 0
        /\ \A k \in 1..Len(n1b) : Curve(n1b)[k] > 0) =>
        LET c == Curve(n1b)
            e == mdd_ret.i + 1
            b == mdd_ret.j + 1
        IN  /\ e \in 2..Len(c)
            /\ b \in 1..(e - 1)
            /\ \A l \in 1..e : c[l] <= c[b]
            /\ c[e] < c[b]
            /\ mdd_ret.mdd >= 0
            /\ mdd_ret.mdd < Base

\* a rise, a fall and a recovery: the peak is not the first point and the
\* trough is not the last
C20_Witness ==
    /\ mdd_pc = "returned"
    /\ Len(n1b) = 3
    /\ mdd_ret.j = 0 /\ mdd_ret.i = 1
    /\ Curve(n1b)[3] > Curve(n1b)[2]
    /\ mdd_ret.mdd > 0

====
